---- MODULE Spec2Model ----
(***************************************************************************)
(* NeurOS 2.0 review scheduling (app/core/srs.py, app/services/            *)
(* srs_service.py) and knowledge decay (app/core/decay.py,                 *)
(* app/services/decay_service.py).                                         *)
(*                                                                         *)
(* Conventions                                                             *)
(*   - timestamps and dates are whole days on one clock, `now`;            *)
(*   - ease factors are held in hundredths (2.5 is 250), so the SM-2       *)
(*     deltas +0.10, 0.00, -0.14 and -0.20 are exact integers;             *)
(*   - a float product that is a whole number in exact arithmetic may fall *)
(*     just short of it (2.5 - 0.2 - 0.2 - 0.2 + 0.1 is 1.9999999999999998 *)
(*     in the program), so int() of it yields either neighbour: FloatDrift; *)
(*   - a nullable column holds NULL when it is None.                       *)
(***************************************************************************)
EXTENDS Integers, Sequences, FiniteSets, TLC

\* ---------------------------------------------------------------- bounds
\* submissions accepted per review item
MaxReviews == 9
\* last day of the clock
MaxNow == 3
\* the queue specification: review items created beside the entry's, submissions
\* accepted over all items, and the last day of its clock
MaxExtraItems == 1
MaxQueueReviews == 1
MaxQueueNow == 1
\* largest page size asked of the review queue
MaxLimit == 2
\* the prior states drawn for one application of the scheduler: ease factors
\* 1.3 + k * EaseStep / 100 for k up to MaxEaseSteps, repetition numbers up to MaxRepIn
EaseStep == 6
MaxEaseSteps == 25
MaxRepIn == 2
\* the decay specification: practice sessions recorded per tracked item and
\* the last day of its clock
MaxPractices == 2
MaxDecayNow == 5
\* the practice specification: review submissions accepted for the entry and
\* the last day of its clock
MaxPracticeReviews == 1
MaxPracticeNow == 3
\* the evaluation specification: days elapsed since the last practice
MaxElapsed == 30
\* the heatmap-over-practice specification: practice sessions recorded per
\* tracked item, review submissions accepted and the last day of its clock
MaxHeatmapPractices == 2
MaxHeatmapReviews == 1
MaxHeatmapNow == 2
\* the heatmap specification: days in the window and practice sessions in a day
MaxWindow == 5
MaxCount == 2
\* the invalid rows handed to the scheduler: repetition numbers down to
\* -MaxNegativeRep, intervals down to -MaxInvalidInterval and up to
\* 365 + MaxInvalidInterval
MaxNegativeRep == 5
MaxInvalidInterval == 2

\* ------------------------------------------------------ program constants
SRS_DEFAULT_EASE_FACTOR == 250
SRS_MINIMUM_EASE_FACTOR == 130
SRS_INITIAL_INTERVAL_DAYS == 1
MIN_INTERVAL == 1
MAX_INTERVAL == 365
LEECH_THRESHOLD == 8
LEARNING_STEPS_TwoSteps == <<0, 1>>
LEARNING_STEPS == <<0, 1, 3>>
NULL == -1

RecallQuality == 0..5
ReviewItemType == {"entry", "pattern", "flashcard", "knowledge_node"}
TrackableType == {"entry", "pattern", "concept", "knowledge_node"}
Requests == {1, 2}

VARIABLES
    reviews,   \* table srs_reviews: review id -> row
    decays,    \* table decay_trackings: <<trackable type, trackable id>> -> row
    now,       \* the wall clock, in days
    pc,        \* where each submit request stands
    session,   \* what each submit request holds in its database session
    heatmap    \* the practice heatmap last built: its days and the streaks over them

vars == <<reviews, decays, now, pc, session, heatmap>>

Max(a, b) == IF a >= b THEN a ELSE b
Min(a, b) == IF a <= b THEN a ELSE b

\* Python's int() of a quotient: truncation toward zero
TruncDiv(a, b) == IF a >= 0 THEN a \div b ELSE -((-a) \div b)

\* how far, in hundredths, a float product may fall short of the exact product
FloatDrift == {0, 1}

\* ------------------------------------------------------------ SRSEngine
EaseDelta_Negated(quality) == (5 - quality) * (8 + (5 - quality) * 2) - 10

EaseDelta(quality) == 10 - (5 - quality) * (8 + (5 - quality) * 2)

handle_lapse_NoEaseFloor(quality, ease_factor, repetition_number, t) ==
    LET new_ease_factor == ease_factor - 20
        step == LEARNING_STEPS[1]
        next_interval == IF step = 0 THEN 1 ELSE step
    IN  [raised             |-> "no",
         next_interval_days |-> next_interval,
         new_ease_factor    |-> new_ease_factor,
         next_review_date   |-> t + next_interval,
         is_graduated       |-> FALSE,
         repetition_number  |-> 0]

handle_lapse_ZeroStep(quality, ease_factor, repetition_number, t) ==
    LET new_ease_factor == Max(SRS_MINIMUM_EASE_FACTOR, ease_factor - 20)
        next_interval == LEARNING_STEPS[1]
    IN  [raised             |-> "no",
         next_interval_days |-> next_interval,
         new_ease_factor    |-> new_ease_factor,
         next_review_date   |-> t + next_interval,
         is_graduated       |-> FALSE,
         repetition_number  |-> 0]

handle_lapse(quality, ease_factor, repetition_number, t) ==
    LET new_ease_factor == Max(SRS_MINIMUM_EASE_FACTOR, ease_factor - 20)
        step == LEARNING_STEPS[1]
        next_interval == IF step = 0 THEN 1 ELSE step
    IN  [raised             |-> "no",
         next_interval_days |-> next_interval,
         new_ease_factor    |-> new_ease_factor,
         next_review_date   |-> t + next_interval,
         is_graduated       |-> FALSE,
         repetition_number  |-> 0]

SuccessEase_NoFloor(quality, ease_factor) == ease_factor + EaseDelta(quality)

SuccessEase(quality, ease_factor) ==
    Max(SRS_MINIMUM_EASE_FACTOR, ease_factor + EaseDelta(quality))

\* a Python list subscript: list[i] exists for -len(list) <= i < len(list), a
\* negative i counting from the end; any other i raises IndexError
IndexInRange(list, i) == i >= -Len(list) /\ i < Len(list)

ListItem(list, i) == IF i >= 0 THEN list[i + 1] ELSE list[Len(list) + i + 1]

\* the subscript LEARNING_STEPS[repetition_number + 1] is evaluated and fails
SuccessRaises(repetition_number, is_graduated) ==
    /\ ~is_graduated
    /\ repetition_number < Len(LEARNING_STEPS) - 1
    /\ ~IndexInRange(LEARNING_STEPS, repetition_number + 1)

SuccessInterval_NoFixedSteps(current_interval, new_ease_factor, repetition_number, is_graduated, drift) ==
    IF ~is_graduated
    THEN IF repetition_number < Len(LEARNING_STEPS) - 1
         THEN ListItem(LEARNING_STEPS, repetition_number + 1)
         ELSE SRS_INITIAL_INTERVAL_DAYS
    ELSE TruncDiv(current_interval * new_ease_factor - drift, 100)

SuccessInterval(current_interval, new_ease_factor, repetition_number, is_graduated, drift) ==
    IF ~is_graduated
    THEN IF repetition_number < Len(LEARNING_STEPS) - 1
         THEN ListItem(LEARNING_STEPS, repetition_number + 1)
         ELSE SRS_INITIAL_INTERVAL_DAYS
    ELSE IF repetition_number = 0 THEN SRS_INITIAL_INTERVAL_DAYS
         ELSE IF repetition_number = 1 THEN 6
         ELSE TruncDiv(current_interval * new_ease_factor - drift, 100)

ClampInterval_NoUpper(next_interval) == Max(MIN_INTERVAL, next_interval)

ClampInterval(next_interval) ==
    Max(MIN_INTERVAL, Min(MAX_INTERVAL, next_interval))

handle_success(quality, current_interval, ease_factor, repetition_number, is_graduated, t, drift) ==
    LET new_ease_factor == SuccessEase(quality, ease_factor)
        graduated == IF ~is_graduated
                     THEN ~(repetition_number < Len(LEARNING_STEPS) - 1)
                     ELSE TRUE
        next_interval == ClampInterval(
            SuccessInterval(current_interval, new_ease_factor,
                            repetition_number, is_graduated, drift))
    IN  IF SuccessRaises(repetition_number, is_graduated)
        THEN [raised             |-> "IndexError",
              next_interval_days |-> NULL,
              new_ease_factor    |-> NULL,
              next_review_date   |-> NULL,
              is_graduated       |-> FALSE,
              repetition_number  |-> NULL]
        ELSE [raised             |-> "no",
              next_interval_days |-> next_interval,
              new_ease_factor    |-> new_ease_factor,
              next_review_date   |-> t + next_interval,
              is_graduated       |-> graduated,
              repetition_number  |-> repetition_number + 1]

calculate_next_review(quality0, current_interval, ease_factor0, repetition_number, is_graduated, t, drift) ==
    LET quality == Max(0, Min(5, quality0))
        ease_factor == Max(SRS_MINIMUM_EASE_FACTOR, ease_factor0)
    IN  IF quality < 3
        THEN handle_lapse(quality, ease_factor, repetition_number, t)
        ELSE handle_success(quality, current_interval, ease_factor,
                            repetition_number, is_graduated, t, drift)

\* ------------------------------------------------------------ SRSReview
is_graduated(review) == review.status = "review"

\* get_priority_score in twentieths of a point: max(0, days_overdue) * 10
\* + (100 - decay_score) * 0.5 + (3.0 - ease_factor) * 5
get_priority_score(next_review_date, decay_score, ease_factor, t) ==
    200 * Max(0, t - next_review_date) + 10 * (100 - decay_score) + (300 - ease_factor)

NewReview(item_type, t) ==
    [item_type         |-> item_type,
     interval_days     |-> SRS_INITIAL_INTERVAL_DAYS,
     ease_factor       |-> SRS_DEFAULT_EASE_FACTOR,
     repetition_number |-> 0,
     status            |-> "learning",
     next_review_at    |-> t,
     last_review_at    |-> NULL,
     review_count      |-> 0,
     lapse_count       |-> 0,
     last_quality      |-> NULL,
     is_suspended      |-> FALSE,
     is_leech          |-> FALSE]

\* ---------------------------------------------------------- DecayEngine
\* floats of the decay model are held in millionths (1.0 is ONE)
ONE == 1000000
BASE_HALF_LIFE == 7
DECAY_CRITICAL_THRESHOLD == 40
DECAY_WARNING_THRESHOLD == 60
REVIEW_STABILITY_BONUS == 300000
MAX_STABILITY_MULTIPLIER == 5000000

\* a * b / ONE without leaving 32 bits, for a, b below 4.6e7 and 4.6e6
MulFix(a, b) ==
    LET ah == a \div 1000
        al == a % 1000
        bh == b \div 1000
        bl == b % 1000
    IN  ah * bh + (ah * bl + al * bh) \div 1000 + (al * bl) \div 1000000

\* REVIEW_STABILITY_BONUS * (0.8 ** i)
RECURSIVE BonusTerm(_)
BonusTerm(i) ==
    IF i = 0 THEN REVIEW_STABILITY_BONUS ELSE (BonusTerm(i - 1) * 8) \div 10

\* sum(REVIEW_STABILITY_BONUS * (0.8 ** i) for i in range(times_reviewed))
RECURSIVE ReviewBonus(_)
ReviewBonus(times_reviewed) ==
    IF times_reviewed <= 0 THEN 0
    ELSE ReviewBonus(times_reviewed - 1) + BonusTerm(times_reviewed - 1)

calculate_stability_NoDifficulty(times_reviewed, initial_difficulty, last_quality) ==
    LET base == ONE + ReviewBonus(times_reviewed)
        with_quality == (base * (70 + 12 * last_quality)) \div 100
    IN  Min(with_quality, MAX_STABILITY_MULTIPLIER)

calculate_stability(times_reviewed, initial_difficulty, last_quality) ==
    LET base == ONE + ReviewBonus(times_reviewed)
        with_difficulty == (base * (200 - initial_difficulty)) \div 200
        with_quality == (with_difficulty * (70 + 12 * last_quality)) \div 100
    IN  Min(with_quality, MAX_STABILITY_MULTIPLIER)

\* 2 ** -(1/2), 2 ** -(1/4), ... in millionths
Pow2NegRoot ==
    <<707107, 840896, 917004, 957603, 978572, 989228, 994599, 997296,
      998647, 999323, 999662, 999831, 999915, 999958, 999979, 999989>>

\* 2 ** -(r / half_life) for 0 <= r < half_life, bit by bit of the quotient
RECURSIVE Pow2NegFrac(_, _, _, _)
Pow2NegFrac(r, half_life, i, acc) ==
    IF i > Len(Pow2NegRoot) THEN acc
    ELSE IF 2 * r >= half_life
         THEN Pow2NegFrac(2 * r - half_life, half_life, i + 1, MulFix(acc, Pow2NegRoot[i]))
         ELSE Pow2NegFrac(2 * r, half_life, i + 1, acc)

RECURSIVE Halve(_, _)
Halve(x, k) == IF k = 0 \/ x = 0 THEN x ELSE Halve(x \div 2, k - 1)

\* math.exp(-time_elapsed / half_life * math.log(2)), time_elapsed in whole days
Retention(time_elapsed, half_life) ==
    LET whole == (time_elapsed * ONE) \div half_life
        rest == (time_elapsed * ONE) % half_life
    IN  Halve(Pow2NegFrac(rest, half_life, 1, ONE), whole)

\* the fraction bits of log2(y / ONE) for ONE <= y < 2 * ONE, by repeated squaring
RECURSIVE Log2Frac(_, _)
Log2Frac(y, weight) ==
    IF weight < 4 THEN 0
    ELSE LET squared == MulFix(y, y)
         IN  IF squared >= 2 * ONE
             THEN weight \div 2 + Log2Frac(squared \div 2, weight \div 2)
             ELSE Log2Frac(squared, weight \div 2)

\* log2(y / ONE) in millionths, for y >= ONE
RECURSIVE Log2Fix(_)
Log2Fix(y) ==
    IF y >= 2 * ONE THEN ONE + Log2Fix(y \div 2) ELSE Log2Frac(y, ONE)

get_status_ExclusiveBounds(decay_score) ==
    IF decay_score > 80 THEN "fresh"
    ELSE IF decay_score > 60 THEN "stable"
    ELSE IF decay_score > 40 THEN "decaying"
    ELSE IF decay_score > 20 THEN "critical"
    ELSE "forgotten"

get_status(decay_score) ==
    IF decay_score >= 80 THEN "fresh"
    ELSE IF decay_score >= 60 THEN "stable"
    ELSE IF decay_score >= 40 THEN "decaying"
    ELSE IF decay_score >= 20 THEN "critical"
    ELSE "forgotten"

days_until_threshold_Strict(current_score, threshold, half_life) ==
    IF current_score < threshold THEN NULL
    ELSE Max(0, MulFix(half_life, Log2Fix((current_score * ONE) \div threshold)) \div ONE)

\* None when the score is at or below the threshold, else
\* max(0, int(-half_life * log(target / current) / log(2)))
days_until_threshold(current_score, threshold, half_life) ==
    IF current_score <= threshold THEN NULL
    ELSE Max(0, MulFix(half_life, Log2Fix((current_score * ONE) \div threshold)) \div ONE)

\* the call fails with AttributeError where it evaluates datetime.timedelta:
\* datetime names the class datetime.datetime in this module
calculate_decay_score(last_practiced_at, times_reviewed, initial_difficulty, last_quality, current_time) ==
    LET time_elapsed == current_time - last_practiced_at
        stability == calculate_stability(times_reviewed, initial_difficulty, last_quality)
        half_life == BASE_HALF_LIFE * stability
        retention == Retention(time_elapsed, half_life)
        decay_score == Max(0, Min(100, (retention * 100) \div ONE))
        days_until_critical ==
            days_until_threshold(decay_score, DECAY_CRITICAL_THRESHOLD, half_life)
        days_until_warning ==
            days_until_threshold(decay_score, DECAY_WARNING_THRESHOLD, half_life)
    IN  IF days_until_warning # NULL /\ days_until_warning > 0
        THEN [raised                  |-> "AttributeError",
              decay_score             |-> NULL,
              status                  |-> "none",
              days_until_critical     |-> NULL,
              recommended_review_date |-> NULL,
              stability_factor        |-> NULL]
        ELSE [raised                  |-> "no",
              decay_score             |-> decay_score,
              status                  |-> get_status(decay_score),
              days_until_critical     |-> days_until_critical,
              recommended_review_date |-> current_time,
              stability_factor        |-> stability]

\* --------------------------------------------------------- DecayTracking
NewDecay(initial_difficulty, t) ==
    [decay_score        |-> 100,
     stability_factor   |-> ONE,
     last_practiced_at  |-> t,
     times_reviewed     |-> 0,
     next_review_date   |-> NULL,
     initial_difficulty |-> initial_difficulty,
     last_quality       |-> NULL]

\* the property DecayTracking.status of a row holding decay_score
DecayTracking_status(decay_score) ==
    IF decay_score >= 80 THEN "fresh"
    ELSE IF decay_score >= 60 THEN "stable"
    ELSE IF decay_score >= 40 THEN "decaying"
    ELSE IF decay_score >= 20 THEN "critical"
    ELSE "forgotten"

\* ----------------------------------------------------------- SRSService
LeechAfter_Strict(lapse_count, is_leech) ==
    IF lapse_count > LEECH_THRESHOLD THEN TRUE ELSE is_leech

\* "if review.lapse_count >= 8: review.is_leech = True"
LeechAfter(lapse_count, is_leech) ==
    IF lapse_count >= LEECH_THRESHOLD THEN TRUE ELSE is_leech

\* the row submit_review leaves in the session, computed from the row it loaded
SubmitReviewRow(review, quality, t, drift) ==
    LET srs_result == calculate_next_review(
            quality, review.interval_days, review.ease_factor,
            review.repetition_number, is_graduated(review), t, drift)
        updated == [review EXCEPT
            !.interval_days     = srs_result.next_interval_days,
            !.ease_factor       = srs_result.new_ease_factor,
            !.next_review_at    = srs_result.next_review_date,
            !.last_review_at    = t,
            !.review_count      = @ + 1,
            !.repetition_number = srs_result.repetition_number,
            !.last_quality      = quality]
        with_status == IF srs_result.is_graduated
                       THEN [updated EXCEPT !.status = "review"]
                       ELSE updated
    IN  IF quality < 3
        THEN [with_status EXCEPT
                !.lapse_count = @ + 1,
                !.is_leech = LeechAfter(with_status.lapse_count + 1, @)]
        ELSE with_status

\* the UPDATE a flush issues: the columns the session changed, over the stored row
Flush(stored, loaded, changed) ==
    [f \in DOMAIN stored |->
        IF changed[f] # loaded[f] THEN changed[f] ELSE stored[f]]

\* TrackableType(review.item_type.value) raises ValueError for a value it lacks
TrackableTypeOf(item_type) ==
    IF item_type \in TrackableType THEN item_type ELSE "ValueError"

\* submit_review fails: the scheduler raises, or the decay update does
SubmitReviewRaises(review, quality) ==
    \/ calculate_next_review(quality, review.interval_days, review.ease_factor,
            review.repetition_number, is_graduated(review), 0, 0).raised # "no"
    \/ TrackableTypeOf(review.item_type) = "ValueError"

update_decay_after_review_KeepsCount(table, id, review, quality, t) ==
    IF <<TrackableTypeOf(review.item_type), id>> \in DOMAIN table
    THEN [table EXCEPT ![<<TrackableTypeOf(review.item_type), id>>] = [@ EXCEPT
            !.last_practiced_at = t,
            !.last_quality      = quality,
            !.decay_score       = 100,
            !.next_review_date  = review.next_review_at]]
    ELSE table

\* _update_decay_after_review: the decay table after a review of item id
update_decay_after_review(table, id, review, quality, t) ==
    IF <<TrackableTypeOf(review.item_type), id>> \in DOMAIN table
    THEN [table EXCEPT ![<<TrackableTypeOf(review.item_type), id>>] = [@ EXCEPT
            !.last_practiced_at = t,
            !.times_reviewed    = @ + 1,
            !.last_quality      = quality,
            !.decay_score       = 100,
            !.next_review_date  = review.next_review_at]]
    ELSE table

DueItems_IgnoresSuspended(t) ==
    {id \in DOMAIN reviews : reviews[id].next_review_at <= t}

\* get_review_queue / get_next_review_item: the rows the WHERE clause selects
DueItems(t) ==
    {id \in DOMAIN reviews :
        ~reviews[id].is_suspended /\ reviews[id].next_review_at <= t}

\* ORDER BY next_review_at ASC: the orders the database may return the due rows in
\* (rows with equal next_review_at come in any order)
DueOrders(t) ==
    LET due == DueItems(t)
        n == Cardinality(due)
    IN  {q \in [1..n -> due] :
            /\ \A i, j \in 1..n : i # j => q[i] # q[j]
            /\ \A i, j \in 1..n :
                  i < j => reviews[q[i]].next_review_at <= reviews[q[j]].next_review_at}

\* get_review_queue(user_id, limit): the pages it may return
get_review_queue(t, limit) ==
    {SubSeq(q, 1, Min(limit, Len(q))) : q \in DueOrders(t)}

\* ORDER BY next_review_at ASC LIMIT 1: any of the earliest due rows, or none
NextReviewItems(t) ==
    {id \in DueItems(t) :
        \A other \in DueItems(t) :
            reviews[id].next_review_at <= reviews[other].next_review_at}

\* --------------------------------------------------------- DecayService
\* "item.last_quality or 4": None and 0 both become 4
QualityOrDefault(last_quality) ==
    IF last_quality = NULL \/ last_quality = 0 THEN 4 ELSE last_quality

\* the call _update_all_decay_scores makes for one tracked item
Evaluate(item, t) ==
    calculate_decay_score(item.last_practiced_at, item.times_reviewed,
        item.initial_difficulty, QualityOrDefault(item.last_quality), t)

\* the rows _update_all_decay_scores leaves in the session when no call fails
update_all_decay_scores(table, t) ==
    [k \in DOMAIN table |->
        IF table[k].last_practiced_at # NULL
        THEN [table[k] EXCEPT
                !.decay_score      = Evaluate(table[k], t).decay_score,
                !.stability_factor = Evaluate(table[k], t).stability_factor]
        ELSE table[k]]

\* the row record_practice leaves for an item, tracked already or not
record_practice(table, key, quality, t) ==
    IF key \in DOMAIN table
    THEN [table[key] EXCEPT
            !.last_practiced_at = t,
            !.times_reviewed    = @ + 1,
            !.last_quality      = quality,
            !.decay_score       = 100,
            !.next_review_date  =
                t + Max(1, (table[key].stability_factor * BASE_HALF_LIFE) \div (2 * ONE))]
    ELSE [decay_score        |-> 100,
          stability_factor   |-> ONE,
          last_practiced_at  |-> t,
          times_reviewed     |-> 1,
          next_review_date   |-> t + 1,
          initial_difficulty |-> 50,
          last_quality       |-> quality]

\* get_decay_overview: the counter its loop adds 1 to for a row holding decay_score
OverviewCounter(decay_score) ==
    IF decay_score >= 80 THEN "fresh_count"
    ELSE IF decay_score >= 60 THEN "stable_count"
    ELSE IF decay_score >= 40 THEN "decaying_count"
    ELSE IF decay_score >= 20 THEN "critical_count"
    ELSE "forgotten_count"

\* the counters of the DecayOverview returned over the rows of table
overview_counts(table) ==
    [c \in {"fresh_count", "stable_count", "decaying_count", "critical_count",
            "forgotten_count"} |->
        Cardinality({k \in DOMAIN table : OverviewCounter(table[k].decay_score) = c})]

\* get_critical_items / _identify_weak_areas: the rows the WHERE clause selects,
\* each reported with the decay_score the row holds
get_critical_items(table) ==
    {[key |-> k, decay_score |-> table[k].decay_score] :
        k \in {x \in DOMAIN table : table[x].decay_score < DECAY_WARNING_THRESHOLD}}

\* the first loop of _calculate_streaks, one day of it: the run of practiced
\* days grows on a day with count > 0 and starts over on a day without
StreakStep_NoReset(count, temp_streak) ==
    IF count > 0 THEN temp_streak + 1 ELSE temp_streak

StreakStep(count, temp_streak) ==
    IF count > 0 THEN temp_streak + 1 ELSE 0

\* the first loop over days[i], days[i - 1], ..., days[1]
RECURSIVE LongestStreakFrom(_, _, _, _)
LongestStreakFrom(days, i, temp_streak, longest_streak) ==
    IF i = 0 THEN longest_streak
    ELSE LongestStreakFrom(days, i - 1, StreakStep(days[i], temp_streak),
            IF days[i] > 0
            THEN Max(longest_streak, StreakStep(days[i], temp_streak))
            ELSE longest_streak)

RECURSIVE CurrentStreakFrom_SkipsGaps(_, _)
CurrentStreakFrom_SkipsGaps(days, i) ==
    IF i = 0 THEN 0
    ELSE IF days[i] > 0 THEN 1 + CurrentStreakFrom_SkipsGaps(days, i - 1)
    ELSE CurrentStreakFrom_SkipsGaps(days, i - 1)

\* the second loop: days with count > 0 from days[i] backward, up to the first without
RECURSIVE CurrentStreakFrom(_, _)
CurrentStreakFrom(days, i) ==
    IF i = 0 THEN 0
    ELSE IF days[i] > 0 THEN 1 + CurrentStreakFrom(days, i - 1)
    ELSE 0

\* _calculate_streaks(days): days holds the count of each day, oldest first
calculate_streaks(days) ==
    [current_streak |-> CurrentStreakFrom(days, Len(days)),
     longest_streak |-> LongestStreakFrom(days, Len(days), 0, 0)]

\* sum(1 for d in heatmap_days if d.count > 0)
total_days_practiced(days) ==
    Cardinality({i \in 1..Len(days) : days[i] > 0})

\* the count the heatmap query returns for a day: the rows whose
\* last_practiced_at falls on it
practice_counts(table, day) ==
    Cardinality({k \in DOMAIN table : table[k].last_practiced_at = day})

\* heatmap_days at day t, oldest first, from day 0 on (the window of 365 days
\* reaches back beyond the clock, and its earlier days hold count 0)
heatmap_days(table, t) ==
    [i \in 1..(t + 1) |-> practice_counts(table, i - 1)]

\* no heatmap built yet
NoHeatmap ==
    [days |-> <<>>, current_streak |-> NULL, longest_streak |-> NULL,
     total_days_practiced |-> NULL]

\* -------------------------------------------------------------- actions
\* POST /reviews/{id}/submit served without interruption
SubmitReviewUpTo(id, quality, bound) ==
    /\ pc = [r \in Requests |-> "idle"]
    /\ reviews[id].review_count < bound
    /\ \E drift \in FloatDrift :
         LET row == SubmitReviewRow(reviews[id], quality, now, drift)
         IN  IF SubmitReviewRaises(reviews[id], quality)
             THEN UNCHANGED <<reviews, decays>>
             ELSE /\ reviews' = [reviews EXCEPT ![id] = Flush(@, @, row)]
                  /\ decays' = update_decay_after_review(decays, id, row, quality, now)
    /\ UNCHANGED <<now, pc, session, heatmap>>

SubmitReview(id, quality) == SubmitReviewUpTo(id, quality, MaxReviews)

\* POST /reviews: SRSService.create_review_item
CreateReviewItem(id, item_type) ==
    /\ id \notin DOMAIN reviews
    /\ reviews' = reviews @@ (id :> NewReview(item_type, now))
    /\ UNCHANGED <<decays, now, pc, session, heatmap>>

SuspendReview(id) ==
    /\ pc = [r \in Requests |-> "idle"]
    /\ ~reviews[id].is_suspended
    /\ reviews' = [reviews EXCEPT ![id].is_suspended = TRUE]
    /\ UNCHANGED <<decays, now, pc, session, heatmap>>

UnsuspendReview(id) ==
    /\ pc = [r \in Requests |-> "idle"]
    /\ reviews[id].is_suspended
    /\ reviews' = [reviews EXCEPT ![id].is_suspended = FALSE]
    /\ UNCHANGED <<decays, now, pc, session, heatmap>>

TickUpTo(bound) ==
    /\ now < bound
    /\ now' = now + 1
    /\ UNCHANGED <<reviews, decays, pc, session, heatmap>>

Tick == TickUpTo(MaxNow)

NoSession == [id |-> NULL, quality |-> NULL, loaded |-> NewReview("entry", 0)]

\* POST /reviews/{id}/submit, first half: the endpoint's SELECT of the review row
LoadReview(r, id, quality) ==
    /\ pc[r] = "idle"
    /\ reviews[id].review_count < MaxReviews
    /\ session' = [session EXCEPT ![r] =
            [id |-> id, quality |-> quality, loaded |-> reviews[id]]]
    /\ pc' = [pc EXCEPT ![r] = "loaded"]
    /\ UNCHANGED <<reviews, decays, now, heatmap>>

\* second half: SRSService.submit_review on the loaded row, its flushes and the
\* commit, or the rollback of a request that failed
CompleteSubmit(r) ==
    /\ pc[r] = "loaded"
    /\ \E drift \in FloatDrift :
         LET id == session[r].id
             quality == session[r].quality
             row == SubmitReviewRow(session[r].loaded, quality, now, drift)
         IN  IF SubmitReviewRaises(session[r].loaded, quality)
             THEN UNCHANGED <<reviews, decays>>
             ELSE /\ reviews' = [reviews EXCEPT ![id] = Flush(@, session[r].loaded, row)]
                  /\ decays' = update_decay_after_review(decays, id, row, quality, now)
    /\ pc' = [pc EXCEPT ![r] =
            IF SubmitReviewRaises(session[r].loaded, session[r].quality)
            THEN "failed" ELSE "done"]
    /\ UNCHANGED <<now, session, heatmap>>

\* POST /decay/practice
RecordPracticeUpTo(key, quality, bound) ==
    /\ \A r \in Requests : pc[r] = "idle"
    /\ key \in DOMAIN decays => decays[key].times_reviewed < bound
    /\ decays' = [k \in DOMAIN decays \cup {key} |->
                    IF k = key THEN record_practice(decays, key, quality, now)
                    ELSE decays[k]]
    /\ UNCHANGED <<reviews, now, pc, session, heatmap>>

RecordPractice(key, quality) == RecordPracticeUpTo(key, quality, MaxPractices)

\* GET /decay/overview: the scores are written back when the request succeeds;
\* a call that raises fails the request and get_db rolls the session back
GetDecayOverview ==
    /\ \A r \in Requests : pc[r] = "idle"
    /\ IF \E k \in DOMAIN decays :
             decays[k].last_practiced_at # NULL /\ Evaluate(decays[k], now).raised # "no"
       THEN UNCHANGED decays
       ELSE decays' = update_all_decay_scores(decays, now)
    /\ UNCHANGED <<reviews, now, pc, session, heatmap>>

\* get_practice_heatmap from the per-day counts on: the streaks and the total
\* of the response
BuildHeatmap ==
    /\ heatmap.current_streak = NULL
    /\ heatmap' = [heatmap EXCEPT
            !.current_streak       = calculate_streaks(heatmap.days).current_streak,
            !.longest_streak       = calculate_streaks(heatmap.days).longest_streak,
            !.total_days_practiced = total_days_practiced(heatmap.days)]
    /\ UNCHANGED <<reviews, decays, now, pc, session>>

\* GET /decay/heatmap: DecayService.get_practice_heatmap
GetPracticeHeatmap ==
    /\ \A r \in Requests : pc[r] = "idle"
    /\ heatmap' =
          [days                 |-> heatmap_days(decays, now),
           current_streak       |-> calculate_streaks(heatmap_days(decays, now)).current_streak,
           longest_streak       |-> calculate_streaks(heatmap_days(decays, now)).longest_streak,
           total_days_practiced |-> total_days_practiced(heatmap_days(decays, now))]
    /\ UNCHANGED <<reviews, decays, now, pc, session>>

\* an entry completed at day 0: EntryService creates its decay row and its review row
InitEntry ==
    /\ reviews = (1 :> NewReview("entry", 0))
    /\ decays = (<<"entry", 1>> :> NewDecay(50, 0))
    /\ now = 0
    /\ pc = [r \in Requests |-> "idle"]
    /\ session = [r \in Requests |-> NoSession]
    /\ heatmap = NoHeatmap

Init == InitEntry

Next ==
    \/ \E id \in DOMAIN reviews, quality \in RecallQuality : SubmitReview(id, quality)
    \/ \E id \in DOMAIN reviews : SuspendReview(id)
    \/ \E id \in DOMAIN reviews : UnsuspendReview(id)
    \/ Tick

\* one review item, requests served one at a time
Spec == Init /\ [][Next]_vars

NextConc ==
    \/ \E r \in Requests, quality \in RecallQuality : LoadReview(r, 1, quality)
    \/ \E r \in Requests : CompleteSubmit(r)
    \/ Tick

RECURSIVE SumReviewCounts(_)
SumReviewCounts(ids) ==
    IF ids = {} THEN 0
    ELSE LET id == CHOOSE x \in ids : TRUE
         IN  reviews[id].review_count + SumReviewCounts(ids \ {id})

NextQueue ==
    \/ \E id \in 2..(1 + MaxExtraItems), item_type \in {"pattern", "flashcard"} :
          CreateReviewItem(id, item_type)
    \/ \E id \in DOMAIN reviews, quality \in RecallQuality :
          /\ SumReviewCounts(DOMAIN reviews) < MaxQueueReviews
          /\ SubmitReview(id, quality)
    \/ \E id \in DOMAIN reviews : SuspendReview(id)
    \/ \E id \in DOMAIN reviews : UnsuspendReview(id)
    \/ TickUpTo(MaxQueueNow)

\* several review items of one user and the queue over them
SpecQueue == Init /\ [][NextQueue]_vars

\* two submit requests for the same review item, each in its own session
SpecConc == Init /\ [][NextConc]_vars

EaseInputs == {SRS_MINIMUM_EASE_FACTOR + EaseStep * k : k \in 0..MaxEaseSteps}

\* a stored row in any prior scheduling state of the scheduler's domain
InitAdvance ==
    /\ \E status \in {"learning", "review"}, interval \in MIN_INTERVAL..MAX_INTERVAL,
          ease \in EaseInputs, rep \in 0..MaxRepIn :
          reviews = (1 :> [NewReview("entry", 0) EXCEPT
                              !.status = status,
                              !.interval_days = interval,
                              !.ease_factor = ease,
                              !.repetition_number = rep])
    /\ decays = (<<"entry", 1>> :> NewDecay(50, 0))
    /\ now = 0
    /\ pc = [r \in Requests |-> "idle"]
    /\ session = [r \in Requests |-> NoSession]
    /\ heatmap = NoHeatmap

NextAdvance ==
    \/ \E quality \in RecallQuality : LoadReview(1, 1, quality)
    \/ CompleteSubmit(1)

\* one submission applied to each prior state
SpecAdvance == InitAdvance /\ [][NextAdvance]_vars

DecayKeys == {<<"entry", 1>>, <<"concept", 1>>}

\* an entry of any difficulty completed at day 0
InitDecay ==
    /\ reviews = (1 :> NewReview("entry", 0))
    /\ \E difficulty_score \in {25, 50, 75, 100} :
          decays = (<<"entry", 1>> :> NewDecay(difficulty_score, 0))
    /\ now = 0
    /\ pc = [r \in Requests |-> "idle"]
    /\ session = [r \in Requests |-> NoSession]
    /\ heatmap = NoHeatmap

NextDecay ==
    \/ \E key \in DecayKeys, quality \in RecallQuality : RecordPractice(key, quality)
    \/ GetDecayOverview
    \/ TickUpTo(MaxDecayNow)

\* practice sessions and dashboard reads over the tracked items of one user
SpecDecay == InitDecay /\ [][NextDecay]_vars

\* a stored row that is structurally invalid in at least one of ease_factor,
\* interval_days and repetition_number
InitInvalid ==
    /\ \E status \in {"learning", "review"},
          interval \in (-MaxInvalidInterval)..(MAX_INTERVAL + MaxInvalidInterval),
          ease \in {0, 100, SRS_MINIMUM_EASE_FACTOR - 1, SRS_DEFAULT_EASE_FACTOR},
          rep \in (-MaxNegativeRep)..MaxRepIn :
          /\ \/ ease < SRS_MINIMUM_EASE_FACTOR
             \/ interval < MIN_INTERVAL
             \/ interval > MAX_INTERVAL
             \/ rep < 0
          /\ reviews = (1 :> [NewReview("entry", 0) EXCEPT
                                !.status = status,
                                !.interval_days = interval,
                                !.ease_factor = ease,
                                !.repetition_number = rep])
    /\ decays = (<<"entry", 1>> :> NewDecay(50, 0))
    /\ now = 0
    /\ pc = [r \in Requests |-> "idle"]
    /\ session = [r \in Requests |-> NoSession]
    /\ heatmap = NoHeatmap

\* one submission applied to each invalid row
SpecInvalid == InitInvalid /\ [][NextAdvance]_vars

\* the per-day counts of a window of up to MaxWindow days, oldest day first
HeatmapInputs ==
    UNION {[1..n -> 0..MaxCount] : n \in 1..MaxWindow}

InitStreaks ==
    /\ reviews = (1 :> NewReview("entry", 0))
    /\ decays = (<<"entry", 1>> :> NewDecay(50, 0))
    /\ now = 0
    /\ pc = [r \in Requests |-> "idle"]
    /\ session = [r \in Requests |-> NoSession]
    /\ \E days \in HeatmapInputs : heatmap = [NoHeatmap EXCEPT !.days = days]

NextStreaks == BuildHeatmap

\* the streaks computed over each window of per-day counts
SpecStreaks == InitStreaks /\ [][NextStreaks]_vars

NextPractice ==
    \/ \E quality \in RecallQuality :
          RecordPracticeUpTo(<<"entry", 1>>, quality, MaxPracticeReviews + 1)
    \/ \E quality \in RecallQuality : SubmitReviewUpTo(1, quality, MaxPracticeReviews)
    \/ GetDecayOverview
    \/ TickUpTo(MaxPracticeNow)

\* practice recorded on both paths, POST /decay/practice and a review
\* submission, with dashboard reads between
SpecPractice == InitDecay /\ [][NextPractice]_vars

\* a tracking row in any state a practice or a creation leaves, read any number
\* of days later
InitEvaluate ==
    /\ reviews = (1 :> NewReview("entry", 0))
    /\ \E difficulty_score \in {25, 50, 75, 100}, times_reviewed \in 0..MaxPractices,
          last_quality \in RecallQuality \cup {NULL} :
          /\ times_reviewed = 0 <=> last_quality = NULL
          /\ decays = (<<"entry", 1>> :> [NewDecay(difficulty_score, 0) EXCEPT
                                           !.times_reviewed = times_reviewed,
                                           !.last_quality = last_quality])
    /\ now \in 0..MaxElapsed
    /\ pc = [r \in Requests |-> "idle"]
    /\ session = [r \in Requests |-> NoSession]
    /\ heatmap = NoHeatmap

NextEvaluate == GetDecayOverview

\* one dashboard read of each tracking row
SpecEvaluate == InitEvaluate /\ [][NextEvaluate]_vars

\* a user with one review item and no tracking row yet
InitHeatmap ==
    /\ reviews = (1 :> NewReview("entry", 0))
    /\ decays = <<>>
    /\ now = 0
    /\ pc = [r \in Requests |-> "idle"]
    /\ session = [r \in Requests |-> NoSession]
    /\ heatmap = NoHeatmap

NextHeatmap ==
    \/ \E key \in DecayKeys, quality \in RecallQuality :
          RecordPracticeUpTo(key, quality, MaxHeatmapPractices)
    \/ \E quality \in RecallQuality : SubmitReviewUpTo(1, quality, MaxHeatmapReviews)
    \/ GetPracticeHeatmap
    \/ TickUpTo(MaxHeatmapNow)

\* practice events over several days and the heatmaps read between them
SpecHeatmap == InitHeatmap /\ [][NextHeatmap]_vars

\* a review item of any item type, with a tracking row for it or without
InitTypes ==
    /\ \E item_type \in ReviewItemType, tracked \in BOOLEAN :
          /\ reviews = (1 :> NewReview(item_type, 0))
          /\ decays = IF tracked /\ item_type \in TrackableType
                      THEN (<<item_type, 1>> :> NewDecay(50, 0))
                      ELSE <<>>
    /\ now = 0
    /\ pc = [r \in Requests |-> "idle"]
    /\ session = [r \in Requests |-> NoSession]
    /\ heatmap = NoHeatmap

NextTypes ==
    \/ \E quality \in RecallQuality : LoadReview(1, 1, quality)
    \/ CompleteSubmit(1)
    \/ Tick

\* one submission for an item of each item type
SpecTypes == InitTypes /\ [][NextTypes]_vars

\* ================================================================ claims

\* C1: after any sequence of review submissions to an item created with the
\* defaults, the stored interval_days is within [1, 365] and the stored
\* ease_factor is at least 1.3.
C1_IntervalAndEaseWithinBounds ==
    \A id \in DOMAIN reviews :
        /\ reviews[id].interval_days >= MIN_INTERVAL
        /\ reviews[id].interval_days <= MAX_INTERVAL
        /\ reviews[id].ease_factor >= SRS_MINIMUM_EASE_FACTOR

\* the upper clamp has acted: a success of a graduated item whose interval times
\* ease exceeds 365 was stored as 365
C1_Witness ==
    \E id \in DOMAIN reviews :
        /\ reviews[id].review_count > 0
        /\ reviews[id].last_quality >= 3
        /\ reviews[id].interval_days = MAX_INTERVAL

\* C2: a lapse (quality < 3) always leaves the stored repetition_number at 0 and
\* the stored status at Learning, whatever the status was before.
C2_LapseResetsToLearning ==
    \A id \in DOMAIN reviews :
        (reviews[id].last_quality # NULL /\ reviews[id].last_quality < 3) =>
            /\ reviews[id].repetition_number = 0
            /\ reviews[id].status = "learning"

\* C3: is_leech is false while lapse_count is below 8, true from the submission
\* that brings lapse_count to 8, and no later step makes it false again.
C3_LeechExactlyFromEighthLapse ==
    /\ [](\A id \in DOMAIN reviews :
            reviews[id].is_leech <=> reviews[id].lapse_count >= 8)
    /\ [][\A id \in DOMAIN reviews :
            /\ reviews[id].is_leech => reviews'[id].is_leech
            /\ reviews'[id].lapse_count >= reviews[id].lapse_count]_vars

\* a leech whose latest submission was a success
C3_Witness ==
    \E id \in DOMAIN reviews :
        /\ reviews[id].is_leech
        /\ reviews[id].lapse_count = 8
        /\ reviews[id].last_quality >= 3

\* the scheduling state a submission advances
Scheduling(review) ==
    <<review.interval_days, review.ease_factor, review.repetition_number,
      review.status, review.review_count, review.lapse_count,
      review.next_review_at>>

\* C4: a review item that is suspended when a step is taken keeps its interval,
\* ease, repetition number, status, counters and next_review_at in that step.
C4_SuspendedNotAdvanced ==
    [][\A id \in DOMAIN reviews :
          reviews[id].is_suspended =>
              Scheduling(reviews'[id]) = Scheduling(reviews[id])]_vars

\* the rows of a page
Range(q) == {q[i] : i \in 1..Len(q)}

\* C5: a suspended item is in no queue page and is not the next item, whatever
\* its next_review_at; an item that is not suspended is among the due rows the
\* queue is computed from exactly when its next_review_at <= now: every page
\* holds due rows only and holds all of them when they are no more than its
\* limit, and the next item is one of them whenever there is one.
C5_SuspendedAbsentElseDueWithinLimit ==
    \A id \in DOMAIN reviews, limit \in 1..MaxLimit :
        \A page \in get_review_queue(now, limit) :
            /\ reviews[id].is_suspended =>
                  /\ id \notin Range(page)
                  /\ id \notin NextReviewItems(now)
                  /\ \A t \in 0..MaxNow : id \notin DueItems(t)
            /\ ~reviews[id].is_suspended =>
                  /\ id \in DueItems(now) <=> reviews[id].next_review_at <= now
                  /\ id \in Range(page) => reviews[id].next_review_at <= now
                  /\ (Cardinality(DueItems(now)) <= limit /\ id \in DueItems(now))
                        => id \in Range(page)
            /\ NextReviewItems(now) \subseteq DueItems(now)
            /\ DueItems(now) # {} => NextReviewItems(now) # {}

\* a suspended item whose next_review_at has passed beside a reviewed item that is
\* due again and heads the queue
C5_Witness ==
    \E id, other \in DOMAIN reviews :
        /\ reviews[id].is_suspended
        /\ reviews[id].next_review_at <= now
        /\ ~reviews[other].is_suspended
        /\ reviews[other].review_count > 0
        /\ NextReviewItems(now) = {other}

\* C6: when two concurrent submissions for one item have both completed, the
\* stored row is what applying the two one after the other, in some order, gives
\* (review_count two higher, lapse_count higher by the lapses among them).
C6_ConcurrentSubmissionsSerialize ==
    (pc[1] = "done" /\ pc[2] = "done") =>
        \E a \in Requests, t1 \in 0..now, t2 \in 0..now, d1 \in FloatDrift, d2 \in FloatDrift :
            /\ t1 <= t2
            /\ reviews[1] = SubmitReviewRow(
                    SubmitReviewRow(NewReview("entry", 0), session[a].quality, t1, d1),
                    session[3 - a].quality, t2, d2)

\* C7: from one prior state in the Review phase, the interval a quality-5
\* submission stores is at least the interval a quality-4 submission gives.
C7_Quality5IntervalAtLeastQuality4 ==
    \A r \in Requests :
        (/\ pc[r] = "done"
         /\ session[r].quality = 5
         /\ is_graduated(session[r].loaded)) =>
            \A drift \in FloatDrift :
                reviews[session[r].id].interval_days >=
                    calculate_next_review(4, session[r].loaded.interval_days,
                        session[r].loaded.ease_factor,
                        session[r].loaded.repetition_number,
                        is_graduated(session[r].loaded), now, drift).next_interval_days

\* a quality-5 submission in the Review phase stored a strictly longer interval
\* than quality 4 gives, below the cap
C7_Witness ==
    \E r \in Requests :
        /\ pc[r] = "done"
        /\ session[r].quality = 5
        /\ is_graduated(session[r].loaded)
        /\ session[r].loaded.repetition_number >= 2
        /\ reviews[session[r].id].interval_days < MAX_INTERVAL
        /\ reviews[session[r].id].interval_days >
                calculate_next_review(4, session[r].loaded.interval_days,
                    session[r].loaded.ease_factor,
                    session[r].loaded.repetition_number,
                    is_graduated(session[r].loaded), now, 0).next_interval_days

\* C8: once a submission at day t has stored interval n, n >= 1 and
\* next_review_at = t + n, the item is in the due rows of no day before t + n
\* while the row stands, and n = 1 when the submission was a lapse.
C8_NotDueBeforeInterval ==
    \A id \in DOMAIN reviews :
        reviews[id].last_review_at # NULL =>
            /\ reviews[id].interval_days >= 1
            /\ reviews[id].next_review_at
                  = reviews[id].last_review_at + reviews[id].interval_days
            /\ \A t \in 0..MaxNow :
                  t < reviews[id].last_review_at + reviews[id].interval_days
                      => id \notin DueItems(t)
            /\ reviews[id].last_quality < 3 => reviews[id].interval_days = 1

\* an item submitted with interval 3 is due again exactly three days later
C8_Witness ==
    \E id \in DOMAIN reviews :
        /\ reviews[id].last_review_at # NULL
        /\ reviews[id].interval_days = 3
        /\ now = reviews[id].last_review_at + 3
        /\ id \in DueItems(now)
        /\ id \notin DueItems(now - 1)

\* C9: a practice reset followed by an evaluation at the same instant yields
\* a result whose score is 100, whatever the item's review count, difficulty
\* and quality.
C9_ResetThenEvaluateScores100 ==
    \A k \in DOMAIN decays :
        (decays[k].times_reviewed >= 1 /\ decays[k].last_practiced_at = now) =>
            /\ Evaluate(decays[k], now).raised = "no"
            /\ Evaluate(decays[k], now).decay_score = 100

\* C11: a read of decay data reports the score an evaluation yields at the time
\* of the read: a tracked item whose evaluation yields a result is among the
\* critical items exactly when that result's score is below 60, and is reported
\* with that score.
C11_ReadsReportEvaluatedScore ==
    \A k \in DOMAIN decays :
        (decays[k].last_practiced_at # NULL /\ Evaluate(decays[k], now).raised = "no") =>
            /\ (\E alert \in get_critical_items(decays) : alert.key = k)
                  <=> Evaluate(decays[k], now).decay_score < DECAY_WARNING_THRESHOLD
            /\ \A alert \in get_critical_items(decays) :
                  alert.key = k => alert.decay_score = Evaluate(decays[k], now).decay_score

\* the decay score of a review item: that of its tracking row, 100 (the column
\* default) when the item is not tracked
DecayScoreOf(id) ==
    LET key == <<reviews[id].item_type, id>>
    IN  IF key \in DOMAIN decays THEN decays[key].decay_score ELSE 100

PriorityOf(id) ==
    get_priority_score(reviews[id].next_review_at, DecayScoreOf(id),
                       reviews[id].ease_factor, now)

\* C12: every page of due items is in descending priority score, items of equal
\* score by earliest next_review_at.
C12_QueueInDescendingPriority ==
    \A limit \in 1..MaxLimit :
        \A page \in get_review_queue(now, limit) :
            \A i, j \in 1..Len(page) :
                i < j =>
                    \/ PriorityOf(page[i]) > PriorityOf(page[j])
                    \/ /\ PriorityOf(page[i]) = PriorityOf(page[j])
                       /\ reviews[page[i]].next_review_at <= reviews[page[j]].next_review_at

\* C13: current_streak is the number of consecutive days with count > 0 counted
\* backward from the last day of the window, up to and not including the first
\* day with count 0; it is 0 when the last day has count 0.
C13_CurrentStreakCountsBackToFirstGap ==
    heatmap.current_streak # NULL =>
        LET days == heatmap.days
            n == heatmap.current_streak
        IN  /\ n \in 0..Len(days)
            /\ \A i \in (Len(days) - n + 1)..Len(days) : days[i] > 0
            /\ n < Len(days) => days[Len(days) - n] = 0
            /\ days[Len(days)] = 0 => n = 0

\* a streak of two or more days stopped by a gap that has practiced days before it
C13_Witness ==
    /\ heatmap.current_streak # NULL
    /\ heatmap.current_streak >= 2
    /\ \E i \in 1..Len(heatmap.days) :
          /\ i < Len(heatmap.days) - heatmap.current_streak
          /\ heatmap.days[i] > 0

\* the days a..b of the window all have count > 0
PracticedRun(days, a, b) == \A i \in a..b : days[i] > 0

\* C14: longest_streak is the length of the longest run of consecutive days with
\* count > 0 anywhere in the window, so current_streak <= longest_streak <=
\* total_days_practiced.
C14_LongestStreakIsLongestRun ==
    heatmap.longest_streak # NULL =>
        LET days == heatmap.days
            n == heatmap.longest_streak
        IN  /\ n \in 0..Len(days)
            /\ \E a \in 1..(Len(days) - n + 1) : PracticedRun(days, a, a + n - 1)
            /\ \A a \in 1..Len(days), b \in 1..Len(days) :
                  (a <= b /\ PracticedRun(days, a, b)) => b - a + 1 <= n
            /\ heatmap.current_streak <= n
            /\ n <= heatmap.total_days_practiced

\* the longest run lies before a gap: it is longer than the current streak and
\* shorter than the total of practiced days
C14_Witness ==
    /\ heatmap.longest_streak # NULL
    /\ heatmap.current_streak >= 1
    /\ heatmap.longest_streak >= heatmap.current_streak + 2
    /\ heatmap.total_days_practiced > heatmap.longest_streak

\* C15: a submission for a row with ease_factor below 1.3, interval_days outside
\* [1, 365] or a negative repetition_number, in Learning or in Review, does not
\* fail: it stores an interval within [1, 365] and an ease factor of at least 1.3.
C15_InvalidStateIsNormalized ==
    \A r \in Requests :
        pc[r] \in {"done", "failed"} =>
            /\ pc[r] = "done"
            /\ reviews[session[r].id].interval_days \in MIN_INTERVAL..MAX_INTERVAL
            /\ reviews[session[r].id].ease_factor >= SRS_MINIMUM_EASE_FACTOR

\* C16: the stability_factor a tracking row holds is always at least 1.0 and at
\* most 5.0, after creation, after a practice and after the write-back of an
\* evaluation.
C16_StoredStabilityWithinBounds ==
    \A k \in DOMAIN decays :
        /\ decays[k].stability_factor >= ONE
        /\ decays[k].stability_factor <= MAX_STABILITY_MULTIPLIER

\* a submission for item id was stored in this step
Submitted(id) == reviews'[id].review_count = reviews[id].review_count + 1

\* C17: for an item in Learning a success with repetition_number 0 stores
\* interval 1 and a success with repetition_number 1 stores interval 3, both
\* keeping Learning; a success with repetition_number >= 2 stores interval 1 and
\* status Review; a lapse starts the count over. So an item is in Learning with
\* repetition_number at most 2 and reaches Review only by the third success in
\* a row.
C17_LearningLadder ==
    /\ [](\A id \in DOMAIN reviews :
            reviews[id].status = "learning" =>
                /\ reviews[id].repetition_number \in 0..2
                /\ \A repetition_number \in 2..(2 + MaxRepIn), quality \in 3..5 :
                      LET srs_result == calculate_next_review(quality,
                              reviews[id].interval_days, reviews[id].ease_factor,
                              repetition_number, FALSE, now, 0)
                      IN  /\ srs_result.next_interval_days = 1
                          /\ srs_result.is_graduated)
    /\ [][\A id \in DOMAIN reviews :
            (reviews[id].status = "learning" /\ Submitted(id)) =>
                IF reviews'[id].last_quality < 3
                THEN /\ reviews'[id].repetition_number = 0
                     /\ reviews'[id].status = "learning"
                ELSE /\ reviews'[id].repetition_number = reviews[id].repetition_number + 1
                     /\ reviews[id].repetition_number = 0 =>
                            /\ reviews'[id].interval_days = 1
                            /\ reviews'[id].status = "learning"
                     /\ reviews[id].repetition_number = 1 =>
                            /\ reviews'[id].interval_days = 3
                            /\ reviews'[id].status = "learning"
                     /\ reviews[id].repetition_number >= 2 =>
                            /\ reviews'[id].interval_days = 1
                            /\ reviews'[id].status = "review"]_vars

\* an item that lapsed once in Learning and graduated by the third success after it
C17_Witness ==
    \E id \in DOMAIN reviews :
        /\ reviews[id].status = "review"
        /\ reviews[id].review_count = 4
        /\ reviews[id].lapse_count = 1
        /\ reviews[id].repetition_number = 3
        /\ reviews[id].interval_days = 1

\* C18: for an item in Review a success with repetition_number 0 stores interval
\* 1 and a success with repetition_number 1 stores interval 6, whatever the
\* interval and the ease were; the status stays Review and repetition_number
\* grows by 1 (interval 6, ease 2.5, repetition 1, quality 4 gives ease 2.5,
\* interval 6, repetition 2).
C18_ReviewFirstIntervalsFixed ==
    /\ \A r \in Requests :
          (/\ pc[r] = "done"
           /\ session[r].quality >= 3
           /\ is_graduated(session[r].loaded)) =>
              LET stored == reviews[session[r].id]
                  loaded == session[r].loaded
              IN  /\ loaded.repetition_number = 0 => stored.interval_days = 1
                  /\ loaded.repetition_number = 1 => stored.interval_days = 6
                  /\ stored.status = "review"
                  /\ stored.repetition_number = loaded.repetition_number + 1
    /\ \A drift \in FloatDrift :
          LET srs_result == calculate_next_review(4, 6, 250, 1, TRUE, now, drift)
          IN  /\ srs_result.new_ease_factor = 250
              /\ srs_result.next_interval_days = 6
              /\ srs_result.repetition_number = 2

\* a success with repetition_number 1 in Review stored 6 over an interval and an
\* ease whose product is far from 6
C18_Witness ==
    \E r \in Requests :
        /\ pc[r] = "done"
        /\ session[r].quality >= 3
        /\ is_graduated(session[r].loaded)
        /\ session[r].loaded.repetition_number = 1
        /\ session[r].loaded.interval_days >= 100
        /\ reviews[session[r].id].interval_days = 6

\* interval * ease, in hundredths of a day, rounded to a nearest whole day
\* (either neighbour when it lies halfway)
RoundedToNearest(product) == {(product + 50) \div 100, (product + 49) \div 100}

\* C19: for an item in Review with repetition_number >= 2 a success stores the
\* interval times the updated ease factor, rounded to the nearest day and then
\* clamped to [1, 365].
C19_ReviewIntervalRoundsToNearest ==
    \A r \in Requests :
        (/\ pc[r] = "done"
         /\ session[r].quality >= 3
         /\ is_graduated(session[r].loaded)
         /\ session[r].loaded.repetition_number >= 2) =>
            \E n \in RoundedToNearest(session[r].loaded.interval_days
                                        * reviews[session[r].id].ease_factor) :
                reviews[session[r].id].interval_days = ClampInterval(n)

\* a success was stored for a row loaded in Review with repetition_number >= 2
\* and an interval below the cap
GoodReviewBelowCap(r) ==
    /\ pc[r] = "done"
    /\ session[r].quality >= 3
    /\ is_graduated(session[r].loaded)
    /\ session[r].loaded.repetition_number >= 2
    /\ session[r].loaded.interval_days < MAX_INTERVAL

C21_EaseUpdate ==
    /\ [](\A id \in DOMAIN reviews :
            (reviews[id].lapse_count >= 6
                /\ reviews[id].lapse_count = reviews[id].review_count) =>
                    reviews[id].ease_factor = 130)
    /\ [][\A id \in DOMAIN reviews :
            Submitted(id) =>
                LET q == reviews'[id].last_quality
                    before == reviews[id].ease_factor
                    after == reviews'[id].ease_factor
                IN  /\ q < 3 => after = Max(130, before - 20)
                    /\ q = 3 => after = Max(130, before - 14)
                    /\ q = 4 => after = Max(130, before)
                    /\ q = 5 => after = Max(130, before + 10)
                    /\ (q < 3 /\ before = 130) => after = 130]_vars

\* the floor has acted: an item that has lapsed seven times in a row from
\* creation holds 1.3, where 2.5 - 7 * 0.2 is 1.1
C21_Witness ==
    \E id \in DOMAIN reviews :
        /\ reviews[id].review_count = 7
        /\ reviews[id].lapse_count = 7
        /\ reviews[id].ease_factor = 130

\* what a practice event of the given quality leaves in the row it found
PracticeEffect(key, quality) ==
    /\ decays'[key].decay_score = 100
    /\ decays'[key].last_practiced_at = now
    /\ decays'[key].last_quality = quality
    /\ decays'[key].times_reviewed = decays[key].times_reviewed + 1
    /\ decays'[key].initial_difficulty = decays[key].initial_difficulty

\* C22: every practice event on a tracking row that exists, recorded by
\* record_practice or by a review submission, sets decay_score to 100,
\* last_practiced_at to now and last_quality to the submitted quality, adds
\* exactly 1 to times_reviewed and leaves initial_difficulty as it was.
C22_PracticeResetsRow ==
    [][\A quality \in RecallQuality :
          /\ \A key \in DOMAIN decays :
                RecordPracticeUpTo(key, quality, MaxPracticeReviews + 1) =>
                    PracticeEffect(key, quality)
          /\ \A id \in DOMAIN reviews :
                (/\ SubmitReviewUpTo(id, quality, MaxPracticeReviews)
                 /\ <<TrackableTypeOf(reviews[id].item_type), id>> \in DOMAIN decays) =>
                    PracticeEffect(<<TrackableTypeOf(reviews[id].item_type), id>>, quality)]_vars

\* a row whose score an overview had written back below 60 (with the stability
\* it evaluated), practiced on both paths and reset by the later practice
C22_Witness ==
    \E k \in DOMAIN decays :
        /\ decays[k].stability_factor < ONE
        /\ decays[k].times_reviewed = 2
        /\ reviews[1].review_count = 1
        /\ decays[k].decay_score = 100
        /\ decays[k].last_practiced_at = now
        /\ now = MaxPracticeNow

\* stability * BASE_HALF_LIFE * 0.5 days rounded to a nearest whole day (either
\* neighbour when it lies halfway)
RoundedHalfOfHalfLife(stability) ==
    {(stability * BASE_HALF_LIFE + ONE) \div (2 * ONE),
     (stability * BASE_HALF_LIFE + ONE - 1) \div (2 * ONE)}

\* the row holds the stability of its updated review count, difficulty and
\* quality, and the next review date computed from that stability
StabilityRecomputed(key, quality) ==
    LET stability == calculate_stability(decays'[key].times_reviewed,
                        decays'[key].initial_difficulty, quality)
    IN  /\ decays'[key].stability_factor = stability
        /\ \E n \in RoundedHalfOfHalfLife(stability) :
              decays'[key].next_review_date = now + Max(1, n)

\* C23: every practice event, recorded by record_practice or by a review
\* submission, stores the stability_factor recomputed from the updated
\* times_reviewed, initial_difficulty and last_quality, and next_review_date =
\* now + max(1, round(stability_factor * BASE_HALF_LIFE * 0.5)) days from that
\* recomputed stability.
C23_PracticeRecomputesStability ==
    [][\A quality \in RecallQuality :
          /\ \A key \in DOMAIN decays :
                RecordPracticeUpTo(key, quality, MaxPracticeReviews + 1) =>
                    StabilityRecomputed(key, quality)
          /\ \A id \in DOMAIN reviews :
                (/\ SubmitReviewUpTo(id, quality, MaxPracticeReviews)
                 /\ <<TrackableTypeOf(reviews[id].item_type), id>> \in DOMAIN decays) =>
                    StabilityRecomputed(<<TrackableTypeOf(reviews[id].item_type), id>>, quality)]_vars

\* C24: for every tracking row with a last_practiced_at and every now the
\* evaluation returns a result; its recommended_review_date is now when the
\* score is at or below 60 and later than now when the score is above 60.
C24_EvaluateIsTotalAndRecommends ==
    \A k \in DOMAIN decays :
        decays[k].last_practiced_at # NULL =>
            LET result == Evaluate(decays[k], now)
            IN  /\ result.raised = "no"
                /\ result.decay_score <= DECAY_WARNING_THRESHOLD =>
                        result.recommended_review_date = now
                /\ result.decay_score > DECAY_WARNING_THRESHOLD =>
                        result.recommended_review_date > now

\* C25: days_until_threshold returns None exactly when the score is at or below
\* the threshold (so for score 0 it returns None and takes no logarithm), and
\* an integer >= 0 otherwise; so the days_until_critical of an evaluation is
\* None exactly when the evaluated score is at or below 40.
C25_DaysUntilThresholdNullAtOrBelow ==
    \A k \in DOMAIN decays :
        decays[k].last_practiced_at # NULL =>
            LET half_life == BASE_HALF_LIFE
                    * calculate_stability(decays[k].times_reviewed,
                        decays[k].initial_difficulty,
                        QualityOrDefault(decays[k].last_quality))
                result == Evaluate(decays[k], now)
            IN  /\ \A threshold \in {DECAY_CRITICAL_THRESHOLD, DECAY_WARNING_THRESHOLD},
                      current_score \in 0..100 :
                      LET days == days_until_threshold(current_score, threshold, half_life)
                      IN  /\ days = NULL <=> current_score <= threshold
                          /\ days # NULL => days >= 0
                /\ result.raised = "no" =>
                      (result.days_until_critical = NULL
                          <=> result.decay_score <= DECAY_CRITICAL_THRESHOLD)

\* an overview wrote back a score between the two thresholds, evaluated with a
\* day or more left until the critical one
C25_Witness ==
    \E k \in DOMAIN decays :
        /\ decays[k].last_practiced_at # NULL
        /\ decays[k].decay_score < 100
        /\ Evaluate(decays[k], now).raised = "no"
        /\ Evaluate(decays[k], now).decay_score = decays[k].decay_score
        /\ Evaluate(decays[k], now).decay_score > DECAY_CRITICAL_THRESHOLD
        /\ Evaluate(decays[k], now).days_until_critical >= 1

\* the band of a score as the specification states it
StatusBand(score) ==
    CASE score \in 80..100 -> "fresh"
      [] score \in 60..79  -> "stable"
      [] score \in 40..59  -> "decaying"
      [] score \in 20..39  -> "critical"
      [] score \in 0..19   -> "forgotten"

\* C26: for every score in 0..100 the status is Fresh for 80..100, Stable for
\* 60..79, Decaying for 40..59, Critical for 20..39 and Forgotten for 0..19, and
\* DecayEngine._get_status, the property DecayTracking.status and the counters
\* of the overview classify every score alike; an evaluated row is counted in
\* the overview under the status its evaluation returned.
C26_StatusBandsAgree ==
    /\ \A score \in 0..100 :
          /\ get_status(score) = StatusBand(score)
          /\ DecayTracking_status(score) = get_status(score)
          /\ OverviewCounter(score) = get_status(score) \o "_count"
    /\ \A k \in DOMAIN decays :
          (decays[k].last_practiced_at # NULL /\ Evaluate(decays[k], now).raised = "no") =>
              LET result == Evaluate(decays[k], now)
                  written == update_all_decay_scores(decays, now)
              IN  /\ result.status = StatusBand(result.decay_score)
                  /\ DecayTracking_status(written[k].decay_score) = result.status
                  /\ overview_counts(written)[result.status \o "_count"] >= 1

\* an overview wrote back a score on the lower edge of a band
C26_Witness ==
    \E k \in DOMAIN decays :
        /\ decays[k].times_reviewed >= 1
        /\ decays[k].decay_score \in {20, 40}
        /\ Evaluate(decays[k], now).raised = "no"
        /\ Evaluate(decays[k], now).decay_score = decays[k].decay_score
        /\ overview_counts(decays)[get_status(decays[k].decay_score) \o "_count"] = 1

\* C27: an evaluation uses the stored last_quality whenever it is not None, 0
\* included, and the default 4 only when it is None: a row last practiced with
\* quality 0 is evaluated with the stability of quality modifier 0.7, which is
\* the stability_factor the overview writes back with the score.
C27_StoredQualityZeroIsUsed ==
    \A k \in DOMAIN decays :
        (decays[k].last_practiced_at # NULL /\ decays[k].decay_score < 100) =>
            decays[k].stability_factor =
                calculate_stability(decays[k].times_reviewed, decays[k].initial_difficulty,
                    IF decays[k].last_quality = NULL THEN 4 ELSE decays[k].last_quality)

\* the row of the worked example, read 14 days after its last practice: never
\* reviewed, difficulty 50, evaluated with quality 4
ExampleRow(k) ==
    /\ decays[k].last_practiced_at # NULL
    /\ now - decays[k].last_practiced_at = 14
    /\ decays[k].times_reviewed = 0
    /\ decays[k].initial_difficulty = 50
    /\ QualityOrDefault(decays[k].last_quality) = 4

\* the retention of the example, in millionths
ExampleRetention(k) ==
    Retention(now - decays[k].last_practiced_at,
        BASE_HALF_LIFE * Evaluate(decays[k], now).stability_factor)

C29_PracticedDaysStayInHeatmap ==
    [][heatmap.total_days_practiced # NULL =>
          /\ \A i \in 1..Len(heatmap.days) :
                heatmap.days[i] > 0 => heatmap'.days[i] > 0
          /\ heatmap'.total_days_practiced >= heatmap.total_days_practiced
          /\ heatmap'.longest_streak >= heatmap.longest_streak]_vars

\* C30: a submission for a review item of any ReviewItemType completes, and
\* when no tracking row matches the item the decay table is left as it was
\* while the scheduling update is stored.
C30_EveryItemTypeSubmits ==
    \A r \in Requests :
        pc[r] \in {"done", "failed"} =>
            LET id == session[r].id
            IN  /\ pc[r] = "done"
                /\ <<reviews[id].item_type, id>> \notin DOMAIN decays =>
                      /\ decays = <<>>
                      /\ reviews[id].review_count = session[r].loaded.review_count + 1
                      /\ reviews[id].last_quality = session[r].quality
                      /\ reviews[id].last_review_at # NULL

====
